---- MODULE Spec2Model ----
(***************************************************************************)
(* Model of human-friendly-ids: the alphabets, the confusable-character   *)
(* normalisation, the check character, the generator Id::new_with_rng and  *)
(* the parser Id::from_str.                                                *)
(*                                                                         *)
(* A Rust `char` is its code point (a natural number) and a `String` is a  *)
(* sequence of code points.  `String::len` counts UTF-8 bytes, so ByteLen  *)
(* is kept apart from Len (the number of characters).                      *)
(*   'a' 97  'b' 98  'i' 105  'm' 109  'n' 110  'o' 111  'r' 114  's' 115   *)
(*   'u' 117  'v' 118  'w' 119  '-' 45  'V' 86  U+00C9 201  U+00E9 233      *)
(*   U+1F980 (crab) 129408  ''' 39  U+03A3 931  U+1E9E 7838  U+212A 8490     *)
(*   U+0130 304                                                            *)
(***************************************************************************)
EXTENDS Integers, Sequences

VARIABLES pc, len, body, last_char, c, id, input, normalized, result, forms

vars == <<pc, len, body, last_char, c, id, input, normalized, result, forms>>

\* ------------------------------------------------------------- bounds
\* Longest identifier asked of the generator.
MaxLen == 3
\* Longest input string handed to the parser.
MaxInputLen == 5
\* Longest parser input over the characters with case rules.
MaxCaseLen == 4
\* Longest body handed directly to calculate_check_char.
MaxBodyLen == 3
\* Longest canonical identifier whose confusable spellings are tried.
MaxIdLen == 4

\* ------------------------------------------------------------- values
\* Option<char>: None is the empty sequence, Some(x) a one-element one.
None == <<>>
Some(x) == <<x>>

\* Result<_, IdError> and the outcome of an `expect` that fails.
Ok(v) == [tag |-> "Ok", val |-> v]
Err(e) == [tag |-> "Err", val |-> e]
InvalidCharacter == Err("InvalidCharacter")
InvalidCheckBit == Err("InvalidCheckBit")
TooShort == Err("TooShort")
Panic == [tag |-> "Panic", val |-> "expect"]
NoResult == [tag |-> "None", val |-> "none"]

\* ------------------------------------------------------------- alphabet.rs
GEN_ALPHABET ==
    << 97, 98, 99, 100, 101, 102, 104, 105, 106, 107, 109, 110, 111, 112,
       114, 115, 116, 119, 120, 121, 51, 52, 118 >>

CHECK_ALPHABET ==
    << 97, 98, 99, 100, 101, 102, 104, 105, 106, 107, 109, 110, 111, 112,
       114, 115, 116, 119, 120, 121, 51, 52, 118 >>

\* The table starts as [0; 256]; entry CHECK_ALPHABET[i] is then set to i
\* (0-based), in increasing i, so every other entry stays 0.
RECURSIVE FillLookup(_, _)
FillLookup(lookup, i) ==
    IF i < Len(CHECK_ALPHABET)
    THEN FillLookup([lookup EXCEPT ![CHECK_ALPHABET[i + 1]] = i], i + 1)
    ELSE lookup

CHECK_LOOKUP == FillLookup([code \in 0..255 |-> 0], 0)

normalize_char(ch) ==
    CASE ch = 48 -> 111
      [] ch \in {49, 108, 55} -> 105
      [] ch \in {122, 53, 50} -> 115
      [] ch = 117 -> 118
      [] ch \in {54, 56, 57, 103, 113} -> 98
      [] OTHER -> ch

\* core::unicode::conversions::to_lower as runs <<first, last, step, delta>>:
\* first, first + step, ... up to last each map to themselves + delta
\* (U+0130, the only code point with a longer lower case, is not a member).
LowerRuns ==
    { <<65, 90, 1, 32>>, <<192, 214, 1, 32>>, <<216, 222, 1, 32>>, <<256, 302,
      2, 1>>, <<306, 310, 2, 1>>, <<313, 327, 2, 1>>, <<330, 374, 2, 1>>, <<376,
      376, 1, -121>>, <<377, 381, 2, 1>>, <<385, 385, 1, 210>>, <<386, 388, 2,
      1>>, <<390, 390, 1, 206>>, <<391, 391, 1, 1>>, <<393, 394, 1, 205>>,
      <<395, 395, 1, 1>>, <<398, 398, 1, 79>>, <<399, 399, 1, 202>>, <<400, 400,
      1, 203>>, <<401, 401, 1, 1>>, <<403, 403, 1, 205>>, <<404, 404, 1, 207>>,
      <<406, 406, 1, 211>>, <<407, 407, 1, 209>>, <<408, 408, 1, 1>>, <<412,
      412, 1, 211>>, <<413, 413, 1, 213>>, <<415, 415, 1, 214>>, <<416, 420, 2,
      1>>, <<422, 422, 1, 218>>, <<423, 423, 1, 1>>, <<425, 425, 1, 218>>,
      <<428, 428, 1, 1>>, <<430, 430, 1, 218>>, <<431, 431, 1, 1>>, <<433, 434,
      1, 217>>, <<435, 437, 2, 1>>, <<439, 439, 1, 219>>, <<440, 440, 1, 1>>,
      <<444, 444, 1, 1>>, <<452, 452, 1, 2>>, <<453, 453, 1, 1>>, <<455, 455, 1,
      2>>, <<456, 456, 1, 1>>, <<458, 458, 1, 2>>, <<459, 475, 2, 1>>, <<478,
      494, 2, 1>>, <<497, 497, 1, 2>>, <<498, 500, 2, 1>>, <<502, 502, 1, -97>>,
      <<503, 503, 1, -56>>, <<504, 542, 2, 1>>, <<544, 544, 1, -130>>, <<546,
      562, 2, 1>>, <<570, 570, 1, 10795>>, <<571, 571, 1, 1>>, <<573, 573, 1,
      -163>>, <<574, 574, 1, 10792>>, <<577, 577, 1, 1>>, <<579, 579, 1, -195>>,
      <<580, 580, 1, 69>>, <<581, 581, 1, 71>>, <<582, 590, 2, 1>>, <<880, 882,
      2, 1>>, <<886, 886, 1, 1>>, <<895, 895, 1, 116>>, <<902, 902, 1, 38>>,
      <<904, 906, 1, 37>>, <<908, 908, 1, 64>>, <<910, 911, 1, 63>>, <<913, 929,
      1, 32>>, <<931, 939, 1, 32>>, <<975, 975, 1, 8>>, <<984, 1006, 2, 1>>,
      <<1012, 1012, 1, -60>>, <<1015, 1015, 1, 1>>, <<1017, 1017, 1, -7>>,
      <<1018, 1018, 1, 1>>, <<1021, 1023, 1, -130>>, <<1024, 1039, 1, 80>>,
      <<1040, 1071, 1, 32>>, <<1120, 1152, 2, 1>>, <<1162, 1214, 2, 1>>, <<1216,
      1216, 1, 15>>, <<1217, 1229, 2, 1>>, <<1232, 1326, 2, 1>>, <<1329, 1366,
      1, 48>>, <<4256, 4293, 1, 7264>>, <<4295, 4295, 1, 7264>>, <<4301, 4301,
      1, 7264>>, <<5024, 5103, 1, 38864>>, <<5104, 5109, 1, 8>>, <<7305, 7305,
      1, 1>>, <<7312, 7354, 1, -3008>>, <<7357, 7359, 1, -3008>>, <<7680, 7828,
      2, 1>>, <<7838, 7838, 1, -7615>>, <<7840, 7934, 2, 1>>, <<7944, 7951, 1,
      -8>>, <<7960, 7965, 1, -8>>, <<7976, 7983, 1, -8>>, <<7992, 7999, 1, -8>>,
      <<8008, 8013, 1, -8>>, <<8025, 8031, 2, -8>>, <<8040, 8047, 1, -8>>,
      <<8072, 8079, 1, -8>>, <<8088, 8095, 1, -8>>, <<8104, 8111, 1, -8>>,
      <<8120, 8121, 1, -8>>, <<8122, 8123, 1, -74>>, <<8124, 8124, 1, -9>>,
      <<8136, 8139, 1, -86>>, <<8140, 8140, 1, -9>>, <<8152, 8153, 1, -8>>,
      <<8154, 8155, 1, -100>>, <<8168, 8169, 1, -8>>, <<8170, 8171, 1, -112>>,
      <<8172, 8172, 1, -7>>, <<8184, 8185, 1, -128>>, <<8186, 8187, 1, -126>>,
      <<8188, 8188, 1, -9>>, <<8486, 8486, 1, -7517>>, <<8490, 8490, 1, -8383>>,
      <<8491, 8491, 1, -8262>>, <<8498, 8498, 1, 28>>, <<8544, 8559, 1, 16>>,
      <<8579, 8579, 1, 1>>, <<9398, 9423, 1, 26>>, <<11264, 11311, 1, 48>>,
      <<11360, 11360, 1, 1>>, <<11362, 11362, 1, -10743>>, <<11363, 11363, 1,
      -3814>>, <<11364, 11364, 1, -10727>>, <<11367, 11371, 2, 1>>, <<11373,
      11373, 1, -10780>>, <<11374, 11374, 1, -10749>>, <<11375, 11375, 1,
      -10783>>, <<11376, 11376, 1, -10782>>, <<11378, 11378, 1, 1>>, <<11381,
      11381, 1, 1>>, <<11390, 11391, 1, -10815>>, <<11392, 11490, 2, 1>>,
      <<11499, 11501, 2, 1>>, <<11506, 11506, 1, 1>>, <<42560, 42604, 2, 1>>,
      <<42624, 42650, 2, 1>>, <<42786, 42798, 2, 1>>, <<42802, 42862, 2, 1>>,
      <<42873, 42875, 2, 1>>, <<42877, 42877, 1, -35332>>, <<42878, 42886, 2,
      1>>, <<42891, 42891, 1, 1>>, <<42893, 42893, 1, -42280>>, <<42896, 42898,
      2, 1>>, <<42902, 42920, 2, 1>>, <<42922, 42922, 1, -42308>>, <<42923,
      42923, 1, -42319>>, <<42924, 42924, 1, -42315>>, <<42925, 42925, 1,
      -42305>>, <<42926, 42926, 1, -42308>>, <<42928, 42928, 1, -42258>>,
      <<42929, 42929, 1, -42282>>, <<42930, 42930, 1, -42261>>, <<42931, 42931,
      1, 928>>, <<42932, 42946, 2, 1>>, <<42948, 42948, 1, -48>>, <<42949,
      42949, 1, -42307>>, <<42950, 42950, 1, -35384>>, <<42951, 42953, 2, 1>>,
      <<42955, 42955, 1, -42343>>, <<42956, 42970, 2, 1>>, <<42972, 42972, 1,
      -42561>>, <<42997, 42997, 1, 1>>, <<65313, 65338, 1, 32>>, <<66560, 66599,
      1, 40>>, <<66736, 66771, 1, 40>>, <<66928, 66964, 2, 39>>, <<66929, 66938,
      1, 39>>, <<66941, 66954, 1, 39>>, <<66957, 66962, 1, 39>>, <<66965, 66965,
      1, 39>>, <<68736, 68786, 1, 64>>, <<68944, 68965, 1, 32>>, <<71840, 71871,
      1, 32>>, <<93760, 93791, 1, 32>>, <<93856, 93880, 1, 27>>, <<125184,
      125217, 1, 34>> }

\* Ranges <<first, last>> of the code points that are Cased and not
\* Case_Ignorable.
CasedRanges ==
    { <<65, 90>>, <<97, 122>>, <<170, 170>>, <<181, 181>>, <<186, 186>>, <<192,
      214>>, <<216, 246>>, <<248, 442>>, <<444, 447>>, <<452, 659>>, <<662,
      687>>, <<880, 883>>, <<886, 887>>, <<891, 893>>, <<895, 895>>, <<902,
      902>>, <<904, 906>>, <<908, 908>>, <<910, 929>>, <<931, 1013>>, <<1015,
      1153>>, <<1162, 1327>>, <<1329, 1366>>, <<1376, 1416>>, <<4256, 4293>>,
      <<4295, 4295>>, <<4301, 4301>>, <<4304, 4346>>, <<4349, 4351>>, <<5024,
      5109>>, <<5112, 5117>>, <<7296, 7306>>, <<7312, 7354>>, <<7357, 7359>>,
      <<7424, 7467>>, <<7531, 7543>>, <<7545, 7578>>, <<7680, 7957>>, <<7960,
      7965>>, <<7968, 8005>>, <<8008, 8013>>, <<8016, 8023>>, <<8025, 8025>>,
      <<8027, 8027>>, <<8029, 8029>>, <<8031, 8061>>, <<8064, 8116>>, <<8118,
      8124>>, <<8126, 8126>>, <<8130, 8132>>, <<8134, 8140>>, <<8144, 8147>>,
      <<8150, 8155>>, <<8160, 8172>>, <<8178, 8180>>, <<8182, 8188>>, <<8450,
      8450>>, <<8455, 8455>>, <<8458, 8467>>, <<8469, 8469>>, <<8473, 8477>>,
      <<8484, 8484>>, <<8486, 8486>>, <<8488, 8488>>, <<8490, 8493>>, <<8495,
      8500>>, <<8505, 8505>>, <<8508, 8511>>, <<8517, 8521>>, <<8526, 8526>>,
      <<8544, 8575>>, <<8579, 8580>>, <<9398, 9449>>, <<11264, 11387>>, <<11390,
      11492>>, <<11499, 11502>>, <<11506, 11507>>, <<11520, 11557>>, <<11559,
      11559>>, <<11565, 11565>>, <<42560, 42605>>, <<42624, 42651>>, <<42786,
      42863>>, <<42865, 42887>>, <<42891, 42894>>, <<42896, 42972>>, <<42997,
      42998>>, <<43002, 43002>>, <<43824, 43866>>, <<43872, 43880>>, <<43888,
      43967>>, <<64256, 64262>>, <<64275, 64279>>, <<65313, 65338>>, <<65345,
      65370>>, <<66560, 66639>>, <<66736, 66771>>, <<66776, 66811>>, <<66928,
      66938>>, <<66940, 66954>>, <<66956, 66962>>, <<66964, 66965>>, <<66967,
      66977>>, <<66979, 66993>>, <<66995, 67001>>, <<67003, 67004>>, <<68736,
      68786>>, <<68800, 68850>>, <<68944, 68965>>, <<68976, 68997>>, <<71840,
      71903>>, <<93760, 93823>>, <<93856, 93880>>, <<93883, 93907>>, <<119808,
      119892>>, <<119894, 119964>>, <<119966, 119967>>, <<119970, 119970>>,
      <<119973, 119974>>, <<119977, 119980>>, <<119982, 119993>>, <<119995,
      119995>>, <<119997, 120003>>, <<120005, 120069>>, <<120071, 120074>>,
      <<120077, 120084>>, <<120086, 120092>>, <<120094, 120121>>, <<120123,
      120126>>, <<120128, 120132>>, <<120134, 120134>>, <<120138, 120144>>,
      <<120146, 120485>>, <<120488, 120512>>, <<120514, 120538>>, <<120540,
      120570>>, <<120572, 120596>>, <<120598, 120628>>, <<120630, 120654>>,
      <<120656, 120686>>, <<120688, 120712>>, <<120714, 120744>>, <<120746,
      120770>>, <<120772, 120779>>, <<122624, 122633>>, <<122635, 122654>>,
      <<122661, 122666>>, <<125184, 125251>>, <<127280, 127305>>, <<127312,
      127337>>, <<127344, 127369>> }

\* Ranges <<first, last>> of the Case_Ignorable code points.
CaseIgnorableRanges ==
    { <<39, 39>>, <<46, 46>>, <<58, 58>>, <<94, 94>>, <<96, 96>>, <<168, 168>>,
      <<173, 173>>, <<175, 175>>, <<180, 180>>, <<183, 184>>, <<688, 879>>,
      <<884, 885>>, <<890, 890>>, <<900, 901>>, <<903, 903>>, <<1155, 1161>>,
      <<1369, 1369>>, <<1375, 1375>>, <<1425, 1469>>, <<1471, 1471>>, <<1473,
      1474>>, <<1476, 1477>>, <<1479, 1479>>, <<1524, 1524>>, <<1536, 1541>>,
      <<1552, 1562>>, <<1564, 1564>>, <<1600, 1600>>, <<1611, 1631>>, <<1648,
      1648>>, <<1750, 1757>>, <<1759, 1768>>, <<1770, 1773>>, <<1807, 1807>>,
      <<1809, 1809>>, <<1840, 1866>>, <<1958, 1968>>, <<2027, 2037>>, <<2042,
      2042>>, <<2045, 2045>>, <<2070, 2093>>, <<2137, 2139>>, <<2184, 2184>>,
      <<2192, 2193>>, <<2199, 2207>>, <<2249, 2306>>, <<2362, 2362>>, <<2364,
      2364>>, <<2369, 2376>>, <<2381, 2381>>, <<2385, 2391>>, <<2402, 2403>>,
      <<2417, 2417>>, <<2433, 2433>>, <<2492, 2492>>, <<2497, 2500>>, <<2509,
      2509>>, <<2530, 2531>>, <<2558, 2558>>, <<2561, 2562>>, <<2620, 2620>>,
      <<2625, 2626>>, <<2631, 2632>>, <<2635, 2637>>, <<2641, 2641>>, <<2672,
      2673>>, <<2677, 2677>>, <<2689, 2690>>, <<2748, 2748>>, <<2753, 2757>>,
      <<2759, 2760>>, <<2765, 2765>>, <<2786, 2787>>, <<2810, 2815>>, <<2817,
      2817>>, <<2876, 2876>>, <<2879, 2879>>, <<2881, 2884>>, <<2893, 2893>>,
      <<2901, 2902>>, <<2914, 2915>>, <<2946, 2946>>, <<3008, 3008>>, <<3021,
      3021>>, <<3072, 3072>>, <<3076, 3076>>, <<3132, 3132>>, <<3134, 3136>>,
      <<3142, 3144>>, <<3146, 3149>>, <<3157, 3158>>, <<3170, 3171>>, <<3201,
      3201>>, <<3260, 3260>>, <<3263, 3263>>, <<3270, 3270>>, <<3276, 3277>>,
      <<3298, 3299>>, <<3328, 3329>>, <<3387, 3388>>, <<3393, 3396>>, <<3405,
      3405>>, <<3426, 3427>>, <<3457, 3457>>, <<3530, 3530>>, <<3538, 3540>>,
      <<3542, 3542>>, <<3633, 3633>>, <<3636, 3642>>, <<3654, 3662>>, <<3761,
      3761>>, <<3764, 3772>>, <<3782, 3782>>, <<3784, 3790>>, <<3864, 3865>>,
      <<3893, 3893>>, <<3895, 3895>>, <<3897, 3897>>, <<3953, 3966>>, <<3968,
      3972>>, <<3974, 3975>>, <<3981, 3991>>, <<3993, 4028>>, <<4038, 4038>>,
      <<4141, 4144>>, <<4146, 4151>>, <<4153, 4154>>, <<4157, 4158>>, <<4184,
      4185>>, <<4190, 4192>>, <<4209, 4212>>, <<4226, 4226>>, <<4229, 4230>>,
      <<4237, 4237>>, <<4253, 4253>>, <<4348, 4348>>, <<4957, 4959>>, <<5906,
      5908>>, <<5938, 5939>>, <<5970, 5971>>, <<6002, 6003>>, <<6068, 6069>>,
      <<6071, 6077>>, <<6086, 6086>>, <<6089, 6099>>, <<6103, 6103>>, <<6109,
      6109>>, <<6155, 6159>>, <<6211, 6211>>, <<6277, 6278>>, <<6313, 6313>>,
      <<6432, 6434>>, <<6439, 6440>>, <<6450, 6450>>, <<6457, 6459>>, <<6679,
      6680>>, <<6683, 6683>>, <<6742, 6742>>, <<6744, 6750>>, <<6752, 6752>>,
      <<6754, 6754>>, <<6757, 6764>>, <<6771, 6780>>, <<6783, 6783>>, <<6823,
      6823>>, <<6832, 6877>>, <<6880, 6891>>, <<6912, 6915>>, <<6964, 6964>>,
      <<6966, 6970>>, <<6972, 6972>>, <<6978, 6978>>, <<7019, 7027>>, <<7040,
      7041>>, <<7074, 7077>>, <<7080, 7081>>, <<7083, 7085>>, <<7142, 7142>>,
      <<7144, 7145>>, <<7149, 7149>>, <<7151, 7153>>, <<7212, 7219>>, <<7222,
      7223>>, <<7288, 7293>>, <<7376, 7378>>, <<7380, 7392>>, <<7394, 7400>>,
      <<7405, 7405>>, <<7412, 7412>>, <<7416, 7417>>, <<7468, 7530>>, <<7544,
      7544>>, <<7579, 7679>>, <<8125, 8125>>, <<8127, 8129>>, <<8141, 8143>>,
      <<8157, 8159>>, <<8173, 8175>>, <<8189, 8190>>, <<8203, 8207>>, <<8216,
      8217>>, <<8228, 8228>>, <<8231, 8231>>, <<8234, 8238>>, <<8288, 8292>>,
      <<8294, 8303>>, <<8305, 8305>>, <<8319, 8319>>, <<8336, 8348>>, <<8400,
      8432>>, <<11388, 11389>>, <<11503, 11505>>, <<11631, 11631>>, <<11647,
      11647>>, <<11744, 11775>>, <<11823, 11823>>, <<12293, 12293>>, <<12330,
      12333>>, <<12337, 12341>>, <<12347, 12347>>, <<12441, 12446>>, <<12540,
      12542>>, <<40981, 40981>>, <<42232, 42237>>, <<42508, 42508>>, <<42607,
      42610>>, <<42612, 42621>>, <<42623, 42623>>, <<42652, 42655>>, <<42736,
      42737>>, <<42752, 42785>>, <<42864, 42864>>, <<42888, 42890>>, <<42993,
      42996>>, <<43000, 43001>>, <<43010, 43010>>, <<43014, 43014>>, <<43019,
      43019>>, <<43045, 43046>>, <<43052, 43052>>, <<43204, 43205>>, <<43232,
      43249>>, <<43263, 43263>>, <<43302, 43309>>, <<43335, 43345>>, <<43392,
      43394>>, <<43443, 43443>>, <<43446, 43449>>, <<43452, 43453>>, <<43471,
      43471>>, <<43493, 43494>>, <<43561, 43566>>, <<43569, 43570>>, <<43573,
      43574>>, <<43587, 43587>>, <<43596, 43596>>, <<43632, 43632>>, <<43644,
      43644>>, <<43696, 43696>>, <<43698, 43700>>, <<43703, 43704>>, <<43710,
      43711>>, <<43713, 43713>>, <<43741, 43741>>, <<43756, 43757>>, <<43763,
      43764>>, <<43766, 43766>>, <<43867, 43871>>, <<43881, 43883>>, <<44005,
      44005>>, <<44008, 44008>>, <<44013, 44013>>, <<64286, 64286>>, <<64434,
      64450>>, <<65024, 65039>>, <<65043, 65043>>, <<65056, 65071>>, <<65106,
      65106>>, <<65109, 65109>>, <<65279, 65279>>, <<65287, 65287>>, <<65294,
      65294>>, <<65306, 65306>>, <<65342, 65342>>, <<65344, 65344>>, <<65392,
      65392>>, <<65438, 65439>>, <<65507, 65507>>, <<65529, 65531>>, <<66045,
      66045>>, <<66272, 66272>>, <<66422, 66426>>, <<67456, 67461>>, <<67463,
      67504>>, <<67506, 67514>>, <<68097, 68099>>, <<68101, 68102>>, <<68108,
      68111>>, <<68152, 68154>>, <<68159, 68159>>, <<68325, 68326>>, <<68900,
      68903>>, <<68942, 68942>>, <<68969, 68973>>, <<68975, 68975>>, <<69291,
      69292>>, <<69317, 69317>>, <<69370, 69375>>, <<69446, 69456>>, <<69506,
      69509>>, <<69633, 69633>>, <<69688, 69702>>, <<69744, 69744>>, <<69747,
      69748>>, <<69759, 69761>>, <<69811, 69814>>, <<69817, 69818>>, <<69821,
      69821>>, <<69826, 69826>>, <<69837, 69837>>, <<69888, 69890>>, <<69927,
      69931>>, <<69933, 69940>>, <<70003, 70003>>, <<70016, 70017>>, <<70070,
      70078>>, <<70089, 70092>>, <<70095, 70095>>, <<70191, 70193>>, <<70196,
      70196>>, <<70198, 70199>>, <<70206, 70206>>, <<70209, 70209>>, <<70367,
      70367>>, <<70371, 70378>>, <<70400, 70401>>, <<70459, 70460>>, <<70464,
      70464>>, <<70502, 70508>>, <<70512, 70516>>, <<70587, 70592>>, <<70606,
      70606>>, <<70608, 70608>>, <<70610, 70610>>, <<70625, 70626>>, <<70712,
      70719>>, <<70722, 70724>>, <<70726, 70726>>, <<70750, 70750>>, <<70835,
      70840>>, <<70842, 70842>>, <<70847, 70848>>, <<70850, 70851>>, <<71090,
      71093>>, <<71100, 71101>>, <<71103, 71104>>, <<71132, 71133>>, <<71219,
      71226>>, <<71229, 71229>>, <<71231, 71232>>, <<71339, 71339>>, <<71341,
      71341>>, <<71344, 71349>>, <<71351, 71351>>, <<71453, 71453>>, <<71455,
      71455>>, <<71458, 71461>>, <<71463, 71467>>, <<71727, 71735>>, <<71737,
      71738>>, <<71995, 71996>>, <<71998, 71998>>, <<72003, 72003>>, <<72148,
      72151>>, <<72154, 72155>>, <<72160, 72160>>, <<72193, 72202>>, <<72243,
      72248>>, <<72251, 72254>>, <<72263, 72263>>, <<72273, 72278>>, <<72281,
      72283>>, <<72330, 72342>>, <<72344, 72345>>, <<72544, 72544>>, <<72546,
      72548>>, <<72550, 72550>>, <<72752, 72758>>, <<72760, 72765>>, <<72767,
      72767>>, <<72850, 72871>>, <<72874, 72880>>, <<72882, 72883>>, <<72885,
      72886>>, <<73009, 73014>>, <<73018, 73018>>, <<73020, 73021>>, <<73023,
      73029>>, <<73031, 73031>>, <<73104, 73105>>, <<73109, 73109>>, <<73111,
      73111>>, <<73177, 73177>>, <<73459, 73460>>, <<73472, 73473>>, <<73526,
      73530>>, <<73536, 73536>>, <<73538, 73538>>, <<73562, 73562>>, <<78896,
      78912>>, <<78919, 78933>>, <<90398, 90409>>, <<90413, 90415>>, <<92912,
      92916>>, <<92976, 92982>>, <<92992, 92995>>, <<93504, 93506>>, <<93547,
      93548>>, <<94031, 94031>>, <<94095, 94111>>, <<94176, 94177>>, <<94179,
      94180>>, <<94194, 94195>>, <<110576, 110579>>, <<110581, 110587>>,
      <<110589, 110590>>, <<113821, 113822>>, <<113824, 113827>>, <<118528,
      118573>>, <<118576, 118598>>, <<119143, 119145>>, <<119155, 119170>>,
      <<119173, 119179>>, <<119210, 119213>>, <<119362, 119364>>, <<121344,
      121398>>, <<121403, 121452>>, <<121461, 121461>>, <<121476, 121476>>,
      <<121499, 121503>>, <<121505, 121519>>, <<122880, 122886>>, <<122888,
      122904>>, <<122907, 122913>>, <<122915, 122916>>, <<122918, 122922>>,
      <<122928, 122989>>, <<123023, 123023>>, <<123184, 123197>>, <<123566,
      123566>>, <<123628, 123631>>, <<124139, 124143>>, <<124398, 124399>>,
      <<124643, 124643>>, <<124646, 124646>>, <<124654, 124655>>, <<124661,
      124661>>, <<124671, 124671>>, <<125136, 125142>>, <<125252, 125259>>,
      <<127995, 127999>>, <<917505, 917505>>, <<917536, 917631>>, <<917760,
      917999>> }

InRanges(ch, ranges) == \E r \in ranges : r[1] <= ch /\ ch <= r[2]

\* char::to_lowercase: ASCII capitals first, U+0130 becomes "i" + U+0307,
\* a member of a run moves by the run's delta, every other code point is
\* its own lower case.
char_to_lowercase(ch) ==
    IF ch < 128 THEN (IF ch \in 65..90 THEN <<ch + 32>> ELSE <<ch>>)
    ELSE IF ch = 304 THEN <<105, 775>>
    ELSE LET hit == {r \in LowerRuns :
                        r[1] <= ch /\ ch <= r[2] /\ (ch - r[1]) % r[3] = 0}
         IN IF hit = {} THEN <<ch>>
            ELSE <<ch + (CHOOSE r \in hit : TRUE)[4]>>

\* case_ignorable_then_cased over s[i], s[i + step], ...: the first code
\* point that is not Case_Ignorable exists and is Cased.
RECURSIVE case_ignorable_then_cased(_, _, _)
case_ignorable_then_cased(s, i, step) ==
    IF i < 1 \/ i > Len(s) THEN FALSE
    ELSE IF InRanges(s[i], CaseIgnorableRanges)
         THEN case_ignorable_then_cased(s, i + step, step)
         ELSE InRanges(s[i], CasedRanges)

\* The capital sigma at position i: the final form U+03C2 at the end of a
\* word, U+03C3 elsewhere.
map_uppercase_sigma(s, i) ==
    IF /\ case_ignorable_then_cased(s, i - 1, -1)
       /\ ~case_ignorable_then_cased(s, i + 1, 1)
    THEN 962 ELSE 963

RECURSIVE to_lowercase_from(_, _)
to_lowercase_from(s, i) ==
    IF i > Len(s) THEN <<>>
    ELSE (IF s[i] = 931 THEN <<map_uppercase_sigma(s, i)>>
          ELSE char_to_lowercase(s[i]))
         \o to_lowercase_from(s, i + 1)

\* str::to_lowercase
to_lowercase(s) == to_lowercase_from(s, 1)

RECURSIVE map_normalize_char(_)
map_normalize_char(s) ==
    IF s = <<>> THEN <<>>
    ELSE <<normalize_char(Head(s))>> \o map_normalize_char(Tail(s))

\* str::replace: every non-overlapping match of `from`, leftmost first.
RECURSIVE replace(_, _, _)
replace(s, from, to) ==
    IF Len(s) < Len(from) THEN s
    ELSE IF SubSeq(s, 1, Len(from)) = from
         THEN to \o replace(SubSeq(s, Len(from) + 1, Len(s)), from, to)
         ELSE <<Head(s)>> \o replace(Tail(s), from, to)

\* The two rewrites run before the per-character map: a 'u' that becomes
\* 'v' afterwards is never joined into "vv".
normalize_string_replace_first(s) ==
    map_normalize_char(
        replace(replace(to_lowercase(s), <<114, 110>>, <<109>>),
                <<118, 118>>, <<119>>))

normalize_string(s) ==
    replace(replace(map_normalize_char(to_lowercase(s)),
                    <<114, 110>>, <<109>>),
            <<118, 118>>, <<119>>)

Contains(seq, x) == \E i \in 1..Len(seq) : seq[i] = x

\* validate_char with the membership test dropped.
validate_char_any(ch) == Ok("unit")

validate_char(ch) ==
    IF Contains(CHECK_ALPHABET, ch) THEN Ok("unit") ELSE InvalidCharacter

\* CHECK_LOOKUP.get(c as usize): None past the end of the 256-entry table.
lookup_get(ch) ==
    IF ch < 256 THEN Ok(CHECK_LOOKUP[ch]) ELSE InvalidCharacter

\* The first failing lookup ends the collect with its error.
RECURSIVE collect_ranks(_)
collect_ranks(s) ==
    IF s = <<>> THEN Ok(<<>>)
    ELSE LET r == lookup_get(Head(s)) IN
         IF r.tag # "Ok" THEN r
         ELSE LET rest == collect_ranks(Tail(s)) IN
              IF rest.tag # "Ok" THEN rest
              ELSE Ok(<<r.val>> \o rest.val)

RECURSIVE sum(_)
sum(ranks) == IF ranks = <<>> THEN 0 ELSE Head(ranks) + sum(Tail(ranks))

\* The ranks weighted by position: a checksum that tells anagrams apart.
RECURSIVE weighted_sum(_)
weighted_sum(ranks) ==
    IF ranks = <<>> THEN 0
    ELSE Len(ranks) * Head(ranks) + weighted_sum(Tail(ranks))

calculate_check_char_weighted(s) ==
    LET ranks == collect_ranks(s) IN
    IF ranks.tag # "Ok" THEN ranks
    ELSE Ok(CHECK_ALPHABET[(weighted_sum(ranks.val) % Len(CHECK_ALPHABET)) + 1])

\* The u64 sum is at most 22 * Len(s), far below 2^64 for every string the
\* model builds, so it is not reduced.  checked_rem by 23 is always Some and
\* the index is below 23, so neither InvalidCheckBit exit is taken.
calculate_check_char(s) ==
    LET ranks == collect_ranks(s) IN
    IF ranks.tag # "Ok" THEN ranks
    ELSE LET index == sum(ranks.val) % Len(CHECK_ALPHABET) IN
         IF index < Len(CHECK_ALPHABET)
         THEN Ok(CHECK_ALPHABET[index + 1])
         ELSE InvalidCheckBit

\* ------------------------------------------------------------- id.rs
\* Width of a code point in UTF-8.
len_utf8(ch) ==
    IF ch < 128 THEN 1 ELSE IF ch < 2048 THEN 2 ELSE IF ch < 65536 THEN 3 ELSE 4

\* String::len: the number of bytes.
RECURSIVE ByteLen(_)
ByteLen(s) == IF s = <<>> THEN 0 ELSE len_utf8(Head(s)) + ByteLen(Tail(s))

\* str::split_at_checked(mid): None unless mid is a character boundary.
split_at_checked(s, mid) ==
    IF \E k \in 0..Len(s) : ByteLen(SubSeq(s, 1, k)) = mid
    THEN LET k == CHOOSE k \in 0..Len(s) : ByteLen(SubSeq(s, 1, k)) = mid
         IN Ok(<<SubSeq(s, 1, k), SubSeq(s, k + 1, Len(s))>>)
    ELSE Err("None")

\* The first body character that validate_char refuses ends the loop.
RECURSIVE validate_body(_)
validate_body(s) ==
    IF s = <<>> THEN Ok("unit")
    ELSE LET r == validate_char(Head(s)) IN
         IF r.tag # "Ok" THEN r ELSE validate_body(Tail(s))

\* Everything of from_str after the length check.
from_str_checked(norm) ==
    IF ByteLen(norm) = 0 THEN Panic
    ELSE LET split == split_at_checked(norm, ByteLen(norm) - 1) IN
         IF split.tag # "Ok" THEN InvalidCharacter
         ELSE LET expected_check == calculate_check_char(split.val[1]) IN
              IF expected_check.tag # "Ok" THEN expected_check
              ELSE IF split.val[2] # <<expected_check.val>> THEN InvalidCheckBit
              ELSE LET valid == validate_body(split.val[1]) IN
                   IF valid.tag # "Ok" THEN valid ELSE Ok(norm)

\* from_str with the length check dropped.
from_str_no_length_check(s) == from_str_checked(normalize_string(s))

\* from_str with the length check off by one (< 3 instead of <= 3).
from_str_short_boundary(s) ==
    LET norm == normalize_string(s) IN
    IF ByteLen(norm) < 3 THEN TooShort ELSE from_str_checked(norm)

from_str(s) ==
    LET norm == normalize_string(s) IN
    IF ByteLen(norm) <= 3 THEN TooShort ELSE from_str_checked(norm)

saturating_sub(a, b) == IF a >= b THEN a - b ELSE 0

\* The match of new_with_rng without its second arm.
rejected_pairs_only(last, ch, blen, n) ==
    (last = Some(114) /\ ch = 110) \/ (last = Some(118) /\ ch = 118)

\* The two arms of the match in new_with_rng that drop the drawn character.
rejected(last, ch, blen, n) ==
    \/ (last = Some(114) /\ ch = 110) \/ (last = Some(118) /\ ch = 118)
    \/ (ch \in {114, 118} /\ blen = saturating_sub(n, 2))

\* ------------------------------------------------------------- inputs
\* Characters of parser inputs: 'a' 'r' 'n' 'u' 'V' '-' U+00C9 and the crab.
InputChars == {97, 114, 110, 117, 86, 45, 201, 129408}

\* Characters with case rules: 'a', the apostrophe (Case_Ignorable), capital
\* sigma, U+1E9E (lower case U+00DF, below 256), the Kelvin sign (lower
\* case 'k') and U+0130 (lower case of two characters).
CaseChars == {97, 39, 931, 7838, 8490, 304}

\* Every code point that has a lower case of its own.
Capitals ==
    (65..90) \cup {304}
    \cup UNION {{r[1] + k * r[3] : k \in 0..((r[2] - r[1]) \div r[3])} :
                r \in LowerRuns}

SeqsUpTo(S, n) == UNION {[1..k -> S] : k \in 0..n}

Idle ==
    /\ len = 0 /\ body = <<>> /\ last_char = None /\ c = None
    /\ id = <<>> /\ forms = <<>>

\* ------------------------------------------------------------- parser
InitParse ==
    /\ pc = "parse"
    /\ input \in SeqsUpTo(InputChars, MaxInputLen)
                \cup SeqsUpTo(CaseChars, MaxCaseLen)
                \cup {<<ch>> : ch \in Capitals}
    /\ normalized = <<>>
    /\ result = NoResult
    /\ Idle

\* Id::from_str(input); `normalized` is its local of that name.
FromStr ==
    /\ pc = "parse"
    /\ normalized' = normalize_string(input)
    /\ result' = from_str(input)
    /\ pc' = "done"
    /\ UNCHANGED <<len, body, last_char, c, id, input, forms>>

NextParse == FromStr

SpecParse == InitParse /\ [][NextParse]_vars

\* ---- claims about the parser (SpecParse)
HasPair(s, x, y) == \E i \in 1..(Len(s) - 1) : s[i] = x /\ s[i + 1] = y

Front(s) == SubSeq(s, 1, Len(s) - 1)

\* C3: an accepted input is stored as its normalised form, has at least 4
\* characters, all of them members of CHECK_ALPHABET, and ends with the
\* check character of what precedes; an input whose normalised form holds
\* a character outside the alphabet is never accepted.
ParseSoundness ==
    pc = "done" =>
        /\ result.tag = "Ok" =>
            /\ result.val = normalized
            /\ Len(result.val) >= 4
            /\ \A i \in 1..Len(result.val) :
                   Contains(CHECK_ALPHABET, result.val[i])
            /\ calculate_check_char(Front(result.val)) =
                   Ok(result.val[Len(result.val)])
        /\ (\E i \in 1..Len(normalized) :
                ~Contains(CHECK_ALPHABET, normalized[i])) => result.tag # "Ok"

\* An input with confusable spellings was accepted in its normalised form.
ParseSoundnessWitness ==
    /\ pc = "done" /\ result.tag = "Ok"
    /\ input # normalized /\ Len(normalized) < Len(input)

\* C4 as claimed: TooShort exactly up to 3 characters of normalised input.
TooShortByCharacters ==
    pc = "done" =>
        /\ Len(normalized) <= 3 => result = TooShort
        /\ Len(normalized) >= 4 => result # TooShort

\* C4 as amended: TooShort is returned exactly when the normalised input is
\* at most 3 bytes long in UTF-8, whatever its characters are (the length
\* check comes before the checksum and the character validation), hence
\* never for 4 or more characters.
TooShortByBytes ==
    pc = "done" =>
        /\ result = TooShort <=> ByteLen(normalized) <= 3
        /\ Len(normalized) >= 4 => result # TooShort

\* At most 3 characters, more than 3 bytes: not TooShort.
TooShortByBytesWitness ==
    /\ pc = "done" /\ Len(normalized) <= 3 /\ ByteLen(normalized) >= 4
    /\ result = InvalidCharacter

\* C5: a normalised input of at least 4 characters whose body holds a
\* character outside CHECK_ALPHABET makes the rank lookup of
\* calculate_check_char fail and from_str return InvalidCharacter.
InvalidCharacterReported ==
    (/\ pc = "done" /\ Len(normalized) >= 4
     /\ \E i \in 1..(Len(normalized) - 1) :
            ~Contains(CHECK_ALPHABET, normalized[i]))
    => /\ result = InvalidCharacter
       /\ calculate_check_char(Front(normalized)) = InvalidCharacter

\* C6: from_str returns on every input, with Ok or one of the three
\* errors; no input reaches a failing expect.
ParseTotal ==
    pc = "done" =>
        \/ result.tag = "Ok"
        \/ result \in {TooShort, InvalidCharacter, InvalidCheckBit}

\* An input mixing ASCII outside the alphabet, Latin-1 and a 4-byte
\* character has been answered with an error.
ParseTotalWitness ==
    /\ pc = "done" /\ result.tag = "Err"
    /\ Contains(input, 45) /\ Contains(input, 201) /\ Contains(input, 129408)

\* C7: normalising a normalised string changes nothing; the normalised
\* string has no upper-case letter, no character normalize_char rewrites,
\* and neither "rn" nor "vv".
NormalizeIdempotent ==
    pc = "done" =>
        /\ normalize_string(normalized) = normalized
        /\ \A i \in 1..Len(normalized) :
            /\ normalized[i] \notin Capitals
            /\ normalize_char(normalized[i]) = normalized[i]
        /\ ~HasPair(normalized, 114, 110)
        /\ ~HasPair(normalized, 118, 118)

\* An input with a capital and a pair that was rewritten.
NormalizeIdempotentWitness ==
    /\ pc = "done" /\ Contains(input, 86) /\ Contains(input, 117)
    /\ Len(normalized) < Len(input) /\ Contains(normalized, 119)

\* ------------------------------------------------------------- generator
InitGen ==
    /\ pc = "loop"
    /\ len \in 0..MaxLen
    /\ body = <<>> /\ last_char = None /\ c = None
    /\ id = <<>> /\ input = <<>> /\ normalized = <<>>
    /\ result = NoResult /\ forms = <<>>

\* The loop condition holds and the rng returns idx: c is the character
\* drawn.
DrawIdx(idx) ==
    /\ pc = "loop"
    /\ ByteLen(body) < saturating_sub(len, 1)
    /\ c' = Some(GEN_ALPHABET[idx + 1])
    /\ pc' = "match"
    /\ UNCHANGED <<len, body, last_char, id, input, normalized, result, forms>>

Draw == \E idx \in 0..(Len(GEN_ALPHABET) - 1) : DrawIdx(idx)

\* The match on (last_char, c): the character is dropped or pushed, and
\* the turn of the loop ends (c goes out of scope).
Match ==
    /\ pc = "match"
    /\ IF rejected(last_char, c[1], ByteLen(body), len)
       THEN UNCHANGED <<body, last_char>>
       ELSE body' = Append(body, c[1]) /\ last_char' = c
    /\ c' = None
    /\ pc' = "loop"
    /\ UNCHANGED <<len, id, input, normalized, result, forms>>

\* The loop is left: the check character is appended, or the expect fails.
Finish ==
    /\ pc = "loop"
    /\ ~(ByteLen(body) < saturating_sub(len, 1))
    /\ LET check_char == calculate_check_char(body) IN
        IF check_char.tag = "Ok"
        THEN id' = body \o <<check_char.val>> /\ pc' = "generated"
        ELSE id' = id /\ pc' = "panic"
    /\ UNCHANGED <<len, body, last_char, c, input, normalized, result, forms>>

\* id.to_string(), handed to Id::try_from.
ToString ==
    /\ pc = "generated"
    /\ input' = id
    /\ pc' = "parse"
    /\ UNCHANGED <<len, body, last_char, c, id, normalized, result, forms>>

NextGen == Draw \/ Match \/ Finish \/ ToString \/ FromStr

SpecGen == InitGen /\ [][NextGen]_vars

\* The program takes its next step whenever it has one.  Every turn of
\* the loop changes pc, so no sequence of drawn indices is excluded.
SpecGenLive == SpecGen /\ WF_vars(NextGen)

\* ---- claims about the generator
\* C1: the string of a generated identifier of length len >= 1 parses to
\* an identifier with the same string, which has len characters.
RoundTrip ==
    (pc = "done" /\ len >= 1) =>
        /\ result.tag = "Ok"
        /\ result.val = id
        /\ Len(id) = len

\* C8: whatever indices are drawn, the loop of new_with_rng is left after
\* finitely many draws and an Id is returned.
GenerationTerminates == <>(pc = "generated")

\* C9: the partial body is made of GEN_ALPHABET characters and has neither
\* "rn" nor "vv"; the returned identifier is a body of len - 1 characters
\* not ending in 'r' or 'v', followed by its check character, has neither
\* "rn" nor "vv" and is its own normalised form.
GeneratorWellFormed ==
    /\ pc # "panic"
    /\ \A i \in 1..Len(body) : Contains(GEN_ALPHABET, body[i])
    /\ ~HasPair(body, 114, 110) /\ ~HasPair(body, 118, 118)
    /\ (pc \in {"generated", "parse", "done"} /\ len >= 1) =>
        /\ Len(body) = len - 1
        /\ body # <<>> => body[Len(body)] \notin {114, 118}
        /\ id = body \o <<calculate_check_char(body).val>>
        /\ ~HasPair(id, 114, 110) /\ ~HasPair(id, 118, 118)
        /\ normalize_string(id) = id

\* A returned identifier with 'r' in its body and 'n' as check character.
GeneratorWellFormedWitness ==
    /\ pc = "generated" /\ len >= 3
    /\ Contains(body, 114) /\ id[Len(id)] = 110

\* ------------------------------------------------------------- checksum
Chars(seq) == {seq[i] : i \in 1..Len(seq)}

InitCheck ==
    /\ pc = "body"
    /\ body \in SeqsUpTo(Chars(CHECK_ALPHABET), MaxBodyLen)
    /\ len = 0 /\ last_char = None /\ c = None
    /\ id = <<>> /\ input = <<>> /\ normalized = <<>>
    /\ result = NoResult /\ forms = <<>>

\* calculate_check_char(body)
Calculate ==
    /\ pc = "body"
    /\ result' = calculate_check_char(body)
    /\ pc' = "checked"
    /\ UNCHANGED <<len, body, last_char, c, id, input, normalized, forms>>

SwapAt(s, i) == [s EXCEPT ![i] = s[i + 1], ![i + 1] = s[i]]

\* calculate_check_char on the body with two neighbours exchanged.
Swap(i) ==
    /\ pc = "checked"
    /\ i \in 1..(Len(body) - 1)
    /\ body[i] # body[i + 1]
    /\ body' = SwapAt(body, i)
    /\ result' = calculate_check_char(body')
    /\ UNCHANGED <<pc, len, last_char, c, id, input, normalized, forms>>

NextCheck == Calculate \/ \E i \in 1..MaxBodyLen : Swap(i)

SpecCheck == InitCheck /\ [][NextCheck]_vars

\* ---- claims about the checksum
\* 0-based position of a character in CHECK_ALPHABET.
Rank(ch) == (CHOOSE i \in 1..Len(CHECK_ALPHABET) : CHECK_ALPHABET[i] = ch) - 1

RECURSIVE RankSum(_)
RankSum(s) == IF s = <<>> THEN 0 ELSE Rank(Head(s)) + RankSum(Tail(s))

\* C10: for a body of CHECK_ALPHABET characters the check character is the
\* one at index (sum of the 0-based ranks) mod 23, and exchanging two
\* characters of the body does not change it.
ChecksumDefinition ==
    pc = "checked" =>
        /\ result = Ok(CHECK_ALPHABET[(RankSum(body) % 23) + 1])
        /\ \A i \in 1..(Len(body) - 1) :
               calculate_check_char(SwapAt(body, i)) = result

\* A body of distinct characters whose rank sum wraps around 23.
ChecksumDefinitionWitness ==
    /\ pc = "checked" /\ Len(body) >= 2
    /\ body[1] # body[2] /\ RankSum(body) >= 23
    /\ result.tag = "Ok"

\* ------------------------------------------------------------- confusables
\* Canonical characters of the identifiers that get respelled:
\* 'a' 'b' 'i' 'm' 'v' 'w'.
CanonChars == {97, 98, 105, 109, 118, 119}

\* The spellings normalize_string folds onto a canonical character.
Confusables(ch) ==
    (IF ch \in 97..122 THEN {<<ch - 32>>} ELSE {})
    \cup (CASE ch = 111 -> {<<48>>}
            [] ch = 105 -> {<<49>>, <<108>>, <<55>>}
            [] ch = 115 -> {<<122>>, <<53>>, <<50>>}
            [] ch = 118 -> {<<117>>}
            [] ch = 98 -> {<<54>>, <<56>>, <<57>>, <<103>>, <<113>>}
            [] ch = 109 -> {<<114, 110>>}
            [] ch = 119 -> {<<118, 118>>}
            [] OTHER -> {})

RECURSIVE Flatten(_)
Flatten(ss) == IF ss = <<>> THEN <<>> ELSE Head(ss) \o Flatten(Tail(ss))

InitConf ==
    /\ pc = "parse"
    /\ input \in SeqsUpTo(CanonChars, MaxIdLen)
    /\ normalized = <<>>
    /\ result = NoResult
    /\ Idle

\* A successful parse yields the identifier; each of its characters is so
\* far spelled canonically.
Adopt ==
    /\ pc = "done"
    /\ result.tag = "Ok"
    /\ id' = result.val
    /\ forms' = [i \in 1..Len(result.val) |-> <<result.val[i]>>]
    /\ pc' = "valid"
    /\ UNCHANGED <<len, body, last_char, c, input, normalized, result>>

\* Character i of the identifier is written in a confusable form and the
\* whole spelling is parsed with Id::from_str.
Respell(i, f) ==
    /\ pc \in {"valid", "respelled"}
    /\ i \in 1..Len(forms)
    /\ forms[i] = <<id[i]>>
    /\ f \in Confusables(id[i])
    /\ forms' = [forms EXCEPT ![i] = f]
    /\ input' = Flatten(forms')
    /\ normalized' = normalize_string(input')
    /\ result' = from_str(input')
    /\ pc' = "respelled"
    /\ UNCHANGED <<len, body, last_char, c, id>>

NextConf ==
    \/ FromStr
    \/ Adopt
    \/ \E i \in 1..MaxIdLen : \E f \in UNION {Confusables(ch) : ch \in CanonChars} :
           Respell(i, f)

SpecConf == InitConf /\ [][NextConf]_vars

\* ---- claim about confusable spellings
\* C2: every confusable spelling of a valid identifier parses to that same
\* identifier.
ConfusableTolerance ==
    pc = "respelled" => (result.tag = "Ok" /\ result.val = id)

====
